---- MODULE Spec2Model ----
(***************************************************************************)
(* Model of UsfxParser::parse (src/src/main.rs): the streaming state       *)
(* machine that turns quick-xml events of a USFX document into TSV lines.  *)
(* Text, attribute values and the output are sequences of one-character    *)
(* strings, so that trimming, unescaping and splitting are computed.       *)
(***************************************************************************)
EXTENDS Integers, Sequences, FiniteSets, TLC

VARIABLES state, in_content, last_state, output, pc, trim_text,
          opened, n, script, ev, fault, verse, open, pairs, after_s

\* state, in_content, last_state, output : the parser (lines 105, 143, 144, 107)
\* pc        : "running" inside the loop, "ok" / "err" once parse has returned
\* trim_text : config.trim_text
\* opened    : the reader's stack of open element names
\* n, script : events read so far; the document when it is fixed beforehand
\* ev        : the event read last
\* fault     : history, the failure the environment produced, if any
\* verse     : history, the last self-closing v since the last self-closing ve
\* open      : history, a valid self-closing v was read since the last
\*             self-closing ve
\* pairs     : history, number of self-closing ve that closed an open record
\* after_s   : history, a start tag of s was read and no valid self-closing v
\*             since
vars == <<state, in_content, last_state, output, pc, trim_text,
          opened, n, script, ev, fault, verse, open, pairs, after_s>>

\* ---- bounds ----
MaxEvents == 4
MaxWords == 3
MaxElems == 2

\* ---- characters ----
TAB == "\t"
NL == "\n"
SP == " "
BadByte == "<FF>"

ParserState == {"Book", "Initial", "InVerse", "InWord", "InSection",
                "InFootnote", "InCrossReference", "VerseEnd"}

\* ---- pure helpers ----
IsWhitespace(c) == c \in {SP, NL, TAB, "\r"}

RECURSIVE TrimStart(_)
TrimStart(s) ==
  IF s # <<>> /\ IsWhitespace(Head(s)) THEN TrimStart(Tail(s)) ELSE s

RECURSIVE TrimEnd(_)
TrimEnd(s) ==
  IF s # <<>> /\ IsWhitespace(s[Len(s)])
  THEN TrimEnd(SubSeq(s, 1, Len(s) - 1)) ELSE s

Trim(s) == TrimEnd(TrimStart(s))

IsUtf8(s) == \A i \in 1..Len(s) : s[i] # BadByte

\* value.split('.') : the components between the separators, always >= 1
RECURSIVE SplitFrom(_, _, _)
SplitFrom(s, sep, cur) ==
  IF s = <<>> THEN <<cur>>
  ELSE IF Head(s) = sep THEN <<cur>> \o SplitFrom(Tail(s), sep, <<>>)
  ELSE SplitFrom(Tail(s), sep, Append(cur, Head(s)))

Split(s, sep) == SplitFrom(s, sep, <<>>)

\* the predefined entities BytesText::unescape resolves
EntityValue(name) ==
  CASE name = <<"a","m","p">> -> <<"&">>
    [] name = <<"l","t">> -> <<"<">>
    [] name = <<"g","t">> -> <<">">>
    [] name = <<"a","p","o","s">> -> <<"'">>
    [] name = <<"q","u","o","t">> -> <<"\"">>
    [] OTHER -> <<>>

IndexOf(s, c) ==
  IF \E i \in 1..Len(s) : s[i] = c
  THEN CHOOSE i \in 1..Len(s) : s[i] = c /\ \A j \in 1..(i-1) : s[j] # c
  ELSE 0

\* e.unescape(): decode the bytes, then resolve every &name; reference
RECURSIVE UnescapeFrom(_)
UnescapeFrom(s) ==
  IF s = <<>> THEN [ok |-> TRUE, val |-> <<>>]
  ELSE IF Head(s) # "&"
  THEN LET r == UnescapeFrom(Tail(s))
       IN [ok |-> r.ok, val |-> IF r.ok THEN <<Head(s)>> \o r.val ELSE <<>>]
  ELSE LET semi == IndexOf(s, ";")
       IN IF semi = 0 THEN [ok |-> FALSE, val |-> <<>>]
          ELSE LET v == EntityValue(SubSeq(s, 2, semi - 1))
                   r == UnescapeFrom(SubSeq(s, semi + 1, Len(s)))
               IN IF v = <<>> \/ ~r.ok THEN [ok |-> FALSE, val |-> <<>>]
                  ELSE [ok |-> TRUE, val |-> v \o r.val]

Unescape(s) ==
  IF IsUtf8(s) THEN UnescapeFrom(s) ELSE [ok |-> FALSE, val |-> <<>>]

\* ---- events delivered by Reader::read_event_into ----
Tags == {"book", "ve", "w", "v", "s", "f", "x", "p"}

Ev(kind, name, text, attrs) ==
  [kind |-> kind, name |-> name, text |-> text, attrs |-> attrs]

StartEv(t) == Ev("Start", t, <<>>, <<>>)
EndEv(t) == Ev("End", t, <<>>, <<>>)
TextEv(p) == Ev("Text", "", p, <<>>)
EmptyEv(t, attrs) == Ev("Empty", t, <<>>, attrs)
OtherEv == Ev("Other", "", <<>>, <<>>)
EofEv == Ev("Eof", "", <<>>, <<>>)
ErrEv == Ev("Err", "", <<>>, <<>>)
NoEv == Ev("None", "", <<>>, <<>>)

Attr(key, value, syntax) == [key |-> key, value |-> value, syntax |-> syntax]

KeyBcv == <<"b","c","v">>
KeyId == <<"i","d">>
BcvGen11 == <<"G","E","N",".","1",".","1">>
BcvShort == <<"G","E","N",".","1">>
BcvLong == <<"G",".","1",".","1",".","1">>

AttrsValid == <<Attr(KeyBcv, BcvGen11, FALSE)>>
AttrsShort == <<Attr(KeyBcv, BcvShort, FALSE)>>
AttrsLong == <<Attr(KeyBcv, BcvLong, FALSE)>>
AttrsNone == <<>>
AttrsIdBad == <<Attr(KeyId, <<BadByte>>, FALSE)>>
AttrsBcvBad == <<Attr(KeyBcv, <<"G",".",BadByte,".","1">>, FALSE)>>
AttrsSyntaxAfter == <<Attr(KeyBcv, BcvGen11, FALSE), Attr(KeyId, <<>>, TRUE)>>

VAttrs == {AttrsValid, AttrsShort, AttrsLong, AttrsNone, AttrsIdBad,
           AttrsBcvBad, AttrsSyntaxAfter}

TxtIn == <<"I","n">>
TxtThe == <<"t","h","e">>
TxtBeginning == <<"b","e","g","i","n","n","i","n","g">>
TxtNl == <<NL>>
TxtMulti == <<"a",NL,"b">>
TxtSpace == <<SP>>
TxtAmp == <<"&","a","m","p",";">>
TxtBadEntity == <<"&","x",";">>

Texts == {TxtIn, TxtNl, TxtMulti, TxtSpace, TxtAmp, TxtBadEntity}

VeEmpty == EmptyEv("ve", <<>>)
VEmpty(attrs) == EmptyEv("v", attrs)

\* the events the tokenizer can deliver next when its stack of open
\* elements is `stack` (check_end_names: an end tag closes the innermost)
Events(stack) ==
  {StartEv(t) : t \in Tags}
    \cup (IF stack = <<>> THEN {} ELSE {EndEv(stack[Len(stack)])})
    \cup {TextEv(p) : p \in Texts}
    \cup {VeEmpty, EmptyEv("p", AttrsValid)}
    \cup {VEmpty(a) : a \in VAttrs}
    \cup {OtherEv, EofEv, ErrEv}

\* ---- documents of word tokens (second specification) ----
Words == {TxtIn, TxtThe, TxtBeginning}

RECURSIVE SeqsUpTo(_, _)
SeqsUpTo(S, k) ==
  IF k = 0 THEN {<<>>}
  ELSE LET shorter == SeqsUpTo(S, k - 1)
       IN shorter \cup {Append(q, x) : q \in shorter, x \in S}

WordElem(w) == <<StartEv("w"), TextEv(w), EndEv("w")>>

RECURSIVE WordElems(_, _)
WordElems(ws, sep) ==
  IF ws = <<>> THEN <<>>
  ELSE IF Len(ws) = 1 THEN WordElem(ws[1])
  ELSE WordElem(Head(ws)) \o sep \o WordElems(Tail(ws), sep)

WordDoc(prolog, ws, sep, last) ==
  prolog \o <<VEmpty(AttrsValid)>> \o WordElems(ws, sep)
         \o <<VeEmpty>> \o <<last>>

WordDocs ==
  {WordDoc(prolog, ws, sep, last) :
     prolog \in {<<>>, <<OtherEv>>},
     ws \in SeqsUpTo(Words, MaxWords),
     sep \in {<<>>, <<TextEv(TxtSpace)>>},
     last \in {EofEv, ErrEv}}

\* ---- documents of one verse with a lead-in (third specification) ----
\* lead-in: nothing, a declaration, or one element with text before the verse
Leads ==
  {<<>>, <<OtherEv>>}
    \cup {<<StartEv(t), TextEv(TxtIn), EndEv(t)>> : t \in Tags}

\* the pieces of a verse body: an element with text, bare text, or a marker
BodyElems ==
  {<<StartEv(t), TextEv(TxtIn), EndEv(t)>> : t \in {"w", "v", "s", "f"}}
    \cup {<<TextEv(TxtIn)>>, <<TextEv(TxtSpace)>>, <<VEmpty(AttrsValid)>>}

RECURSIVE Flatten(_)
Flatten(ss) == IF ss = <<>> THEN <<>> ELSE Head(ss) \o Flatten(Tail(ss))

VerseDoc(lead, marker, body, last) ==
  lead \o <<marker>> \o Flatten(body) \o last

VerseDocs ==
  {VerseDoc(lead, marker, body, last) :
     lead \in Leads,
     marker \in {VEmpty(AttrsValid), VEmpty(AttrsShort)},
     body \in SeqsUpTo(BodyElems, MaxElems),
     last \in {<<VeEmpty, EofEv>>, <<ErrEv>>}}

\* ---- initial states ----
InitParser ==
  /\ state = "Initial"
  /\ in_content = FALSE
  /\ last_state = "Initial"
  /\ output = <<>>
  /\ pc = "running"
  /\ trim_text \in BOOLEAN
  /\ opened = <<>>
  /\ n = 0
  /\ ev = NoEv
  /\ fault = "none"
  /\ verse = "none"
  /\ open = FALSE
  /\ pairs = 0
  /\ after_s = FALSE

Init == InitParser /\ script = <<>>

InitWords == InitParser /\ script \in WordDocs

InitVerse == InitParser /\ script \in VerseDocs

\* the events that can be read next
Avail ==
  IF script = <<>>
  THEN (IF n < MaxEvents THEN Events(opened) ELSE {})
  ELSE (IF n < Len(script) THEN {script[n + 1]} ELSE {})

\* ---- the `?` operator: return early exactly when the result is Err ----
PropagateNever(ok) == FALSE

Propagate(ok) == ~ok

\* write!(self.output, ...) : k of the bytes are accepted by the sink;
\* the write fails unless all are
WriteOk(bytes, k) == k = Len(bytes)

Written(out, bytes, k) == out \o SubSeq(bytes, 1, k)

\* ---- Event::Start ----
StartStateNoGate(st, ic, name) ==
  CASE name = "book" -> "Book"
    [] name = "ve" -> "VerseEnd"
    [] name = "w" -> "InWord"
    [] name = "v" -> "InVerse"
    [] name = "s" -> "InSection"
    [] name = "f" -> "InFootnote"
    [] name = "x" -> "InCrossReference"
    [] OTHER -> st

StartState(st, ic, name) ==
  CASE name = "book" -> "Book"
    [] name = "ve" -> "VerseEnd"
    [] name = "w" -> IF ic THEN "InWord" ELSE st
    [] name = "v" -> IF ic THEN "InVerse" ELSE st
    [] name = "s" -> "InSection"
    [] name = "f" -> "InFootnote"
    [] name = "x" -> "InCrossReference"
    [] OTHER -> st

StartContentKeep(ic, name) == ic

StartContent(ic, name) == IF name = "s" THEN FALSE ELSE ic

\* ---- Event::End ----
EndStateUnknownResets(st, name) ==
  IF name \in {"ve", "s", "f", "x"} THEN "Initial"
  ELSE IF name \in {"w", "v"} THEN "InVerse"
  ELSE "Initial"

EndState(st, name) ==
  CASE name = "ve" -> "Initial"
    [] name = "w" -> "InVerse"
    [] name = "v" -> "InVerse"
    [] name = "s" -> "Initial"
    [] name = "f" -> "Initial"
    [] name = "x" -> "Initial"
    [] OTHER -> st

\* ---- Event::Text ----
TextGate(st, ic) ==
  ic /\ st # "InFootnote" /\ st # "InCrossReference"
     /\ st # "InSection" /\ st # "Book"

TrimCfg(trim, text) == IF trim THEN Trim(text) ELSE text

TextBytesNoContinuation(st, last, text) ==
  CASE st = "InVerse" -> IF text = <<NL>> THEN <<"^">> ELSE text
    [] st = "InWord" ->
         (CASE last = "Initial" -> text
            [] OTHER -> <<SP>> \o text)
    [] OTHER -> <<>>

TextBytesOther(st, last, text) ==
  CASE st = "InVerse" -> IF text = <<NL>> THEN <<"^">> ELSE text
    [] st = "InWord" ->
         (CASE last = "Initial" -> text
            [] last = "InWord" -> <<>>
            [] OTHER -> <<SP>> \o text)
    [] OTHER -> text

\* the bytes the match on self.state hands to write!
TextBytes(st, last, text) ==
  CASE st = "InVerse" -> IF text = <<NL>> THEN <<"^">> ELSE text
    [] st = "InWord" ->
         (CASE last = "Initial" -> text
            [] last = "InWord" -> <<>>
            [] OTHER -> <<SP>> \o text)
    [] OTHER -> <<>>

\* ---- Event::Empty, the loop over the attributes of <v .../> ----
ValidPartsAtLeast(parts) == Len(parts) >= 3

\* line 238
ValidParts(parts) == Len(parts) = 3

PrefixBytes(parts) ==
  parts[1] \o <<TAB>> \o parts[2] \o <<TAB>> \o parts[3] \o <<TAB>>

Outcome(out, ic, err, flt, vs) ==
  [out |-> out, ic |-> ic, err |-> err, fault |-> flt, verse |-> vs]

RECURSIVE AttrLoop(_, _, _, _, _)
AttrLoop(attrs, out, ic, flt, vs) ==
  IF attrs = <<>> THEN {Outcome(out, ic, FALSE, flt, vs)}
  ELSE
    LET a == Head(attrs)
        rest == Tail(attrs)
    IN
    IF a.syntax \/ ~IsUtf8(a.key)
    THEN IF Propagate(FALSE)
         THEN {Outcome(out, ic, TRUE, "decode", vs)}
         ELSE AttrLoop(rest, out, ic, "decode", vs)
    ELSE IF a.key # KeyBcv THEN AttrLoop(rest, out, ic, flt, vs)
    ELSE IF ~IsUtf8(a.value)
    THEN IF Propagate(FALSE)
         THEN {Outcome(out, ic, TRUE, "decode", vs)}
         ELSE AttrLoop(rest, out, ic, "decode", vs)
    ELSE
      LET parts == Split(a.value, ".")
      IN IF ~ValidParts(parts) THEN AttrLoop(rest, out, ic, flt, "malformed")
         ELSE
           LET bytes == PrefixBytes(parts)
           IN UNION {
                IF Propagate(WriteOk(bytes, k))
                THEN {Outcome(Written(out, bytes, k), ic, TRUE, "write", vs)}
                ELSE AttrLoop(rest, Written(out, bytes, k), TRUE,
                              IF WriteOk(bytes, k) THEN flt ELSE "write",
                              "valid")
                : k \in 0..Len(bytes)}

\* ---- Event::Empty ve: what writeln! writes ----
VeBytesIfContent(ic) == IF ic THEN <<NL>> ELSE <<>>

VeBytes(ic) == <<NL>>

\* ---- last_state after a text event (line 207) ----
NextLastGated(st, last, gate) == IF gate THEN st ELSE last

NextLast(st, last, gate) == st

\* ---- the actions: one loop iteration of parse per event kind ----
Consume(e) ==
  /\ n' = n + 1
  /\ ev' = e
  /\ UNCHANGED <<trim_text, script>>

\* line 148
ReadError ==
  \E e \in Avail :
    /\ pc = "running" /\ e.kind = "Err"
    /\ pc' = "err"
    /\ fault' = "xml"
    /\ Consume(e)
    /\ UNCHANGED <<state, in_content, last_state, output, opened,
                   verse, open, pairs, after_s>>

\* lines 150-173
StartTag ==
  \E e \in Avail :
    /\ pc = "running" /\ e.kind = "Start"
    /\ state' = StartState(state, in_content, e.name)
    /\ in_content' = StartContent(in_content, e.name)
    /\ opened' = Append(opened, e.name)
    /\ Consume(e)
    /\ after_s' = (after_s \/ e.name = "s")
    /\ UNCHANGED <<last_state, output, pc, fault, verse, open, pairs>>

\* lines 175-209
TextEvent ==
  \E e \in Avail :
    /\ pc = "running" /\ e.kind = "Text"
    /\ Consume(e)
    /\ UNCHANGED <<state, in_content, opened, verse, open, pairs, after_s>>
    /\ IF TextGate(state, in_content)
       THEN LET d == Unescape(e.text)
            IN IF Propagate(d.ok)
               THEN /\ pc' = "err"
                    /\ fault' = "decode"
                    /\ UNCHANGED <<output, last_state>>
               ELSE LET bytes == TextBytes(state, last_state,
                                           TrimCfg(trim_text, d.val))
                    IN \E k \in 0..Len(bytes) :
                         /\ output' = Written(output, bytes, k)
                         /\ fault' = (IF ~d.ok THEN "decode"
                                      ELSE IF WriteOk(bytes, k) THEN fault
                                      ELSE "write")
                         /\ IF Propagate(WriteOk(bytes, k))
                            THEN pc' = "err" /\ UNCHANGED last_state
                            ELSE /\ pc' = pc
                                 /\ last_state' = NextLast(state, last_state, TRUE)
       ELSE /\ last_state' = NextLast(state, last_state, FALSE)
            /\ UNCHANGED <<output, pc, fault>>

\* lines 211-221
EndTag ==
  \E e \in Avail :
    /\ pc = "running" /\ e.kind = "End"
    /\ opened # <<>> /\ e.name = opened[Len(opened)]
    /\ state' = EndState(state, e.name)
    /\ opened' = SubSeq(opened, 1, Len(opened) - 1)
    /\ Consume(e)
    /\ UNCHANGED <<in_content, last_state, output, pc, fault,
                   verse, open, pairs, after_s>>

\* lines 223-247
EmptyTag ==
  \E e \in Avail :
    /\ pc = "running" /\ e.kind = "Empty"
    /\ Consume(e)
    /\ UNCHANGED <<last_state, opened>>
    /\ IF e.name = "ve"
       THEN /\ state' = "Initial"
            /\ LET bytes == VeBytes(in_content)
               IN \E k \in 0..Len(bytes) :
                 /\ output' = Written(output, bytes, k)
                 /\ fault' = (IF WriteOk(bytes, k) THEN fault ELSE "write")
                 /\ pc' = (IF Propagate(WriteOk(bytes, k)) THEN "err" ELSE pc)
            /\ verse' = "none"
            /\ open' = FALSE
            /\ pairs' = (IF open THEN pairs + 1 ELSE pairs)
            /\ UNCHANGED <<in_content, after_s>>
       ELSE IF e.name = "v"
       THEN /\ \E o \in AttrLoop(e.attrs, output, in_content, fault, verse) :
                 /\ output' = o.out
                 /\ in_content' = o.ic
                 /\ fault' = o.fault
                 /\ verse' = o.verse
                 /\ open' = (open \/ o.verse = "valid")
                 /\ pc' = (IF o.err THEN "err" ELSE pc)
                 /\ after_s' = (after_s /\ ~(o.out # output /\ ~o.err))
            /\ UNCHANGED <<state, pairs>>
       ELSE UNCHANGED <<state, in_content, output, pc, fault,
                        verse, open, pairs, after_s>>

\* line 250: comments, CDATA, declarations, processing instructions, doctype
OtherEvent ==
  \E e \in Avail :
    /\ pc = "running" /\ e.kind = "Other"
    /\ Consume(e)
    /\ UNCHANGED <<state, in_content, last_state, output, pc, opened,
                   fault, verse, open, pairs, after_s>>

\* line 249
EndOfFile ==
  \E e \in Avail :
    /\ pc = "running" /\ e.kind = "Eof"
    /\ pc' = "ok"
    /\ Consume(e)
    /\ UNCHANGED <<state, in_content, last_state, output, opened,
                   fault, verse, open, pairs, after_s>>

Next ==
  \/ ReadError
  \/ StartTag
  \/ TextEvent
  \/ EndTag
  \/ EmptyTag
  \/ OtherEvent
  \/ EndOfFile

Spec == Init /\ [][Next]_vars

SpecWords == InitWords /\ [][Next]_vars

SpecVerse == InitVerse /\ [][Next]_vars

\* ---- helpers of the properties ----
RECURSIVE Count(_, _)
Count(s, c) ==
  IF s = <<>> THEN 0
  ELSE (IF Head(s) = c THEN 1 ELSE 0) + Count(Tail(s), c)

EndsLine(out) == out = <<>> \/ out[Len(out)] = NL

InRegion(stack) == \E i \in 1..Len(stack) : stack[i] \in {"s", "f", "x"}

\* this step read event e
Reads(e) == n' = n + 1 /\ ev' = e

ReadsKind(kind) == n' = n + 1 /\ ev'.kind = kind

BcvParts(e) ==
  {Len(Split(e.attrs[i].value, ".")) :
     i \in {j \in 1..Len(e.attrs) : e.attrs[j].key = KeyBcv
                                     /\ IsUtf8(e.attrs[j].value)}}

IsValidV(e) == e.kind = "Empty" /\ e.name = "v" /\ 3 \in BcvParts(e)

IsMalformedV(e) ==
  e.kind = "Empty" /\ e.name = "v" /\ BcvParts(e) # {} /\ 3 \notin BcvParts(e)

\* ---- C1 ----
C1Doc == WordDoc(<<>>, <<TxtIn, TxtThe, TxtBeginning>>, <<>>, EofEv)

C1Expected ==
  <<"G","E","N",TAB,"1",TAB,"1",TAB>> \o TxtIn \o <<SP>> \o TxtThe
     \o <<SP>> \o TxtBeginning \o <<NL>>

\* C1: the document <v bcv="GEN.1.1"/><w>In</w><w>the</w><w>beginning</w><ve/>
\* with no text between the word elements is written as
\* "GEN\t1\t1\tIn the beginning\n".
C1_WordSpacing == (script = C1Doc /\ pc = "ok") => output = C1Expected

\* C2: when parse has consumed the document to EOF, the number of line
\* terminators in the output equals the number of verse-start/verse-end
\* pairs with a three-component reference.
C2_LineCount == pc = "ok" => Count(output, NL) = pairs

\* C3: a self-closing v with a bcv of other than three components is read
\* without error and writes nothing, and nothing is written from then up to
\* and including the next self-closing ve (a valid self-closing v read
\* before that ve starts another verse and is not constrained).
C3_SkipMalformed ==
  [][ /\ (n' = n + 1 /\ IsMalformedV(ev')) => (pc' = "running" /\ output' = output)
      /\ (verse = "malformed" /\ ~(n' = n + 1 /\ IsValidV(ev')))
           => output' = output ]_vars

\* C4: whenever the reference prefix of a valid self-closing v is written,
\* the output before it is empty or ends with a line terminator.
C4_ReferenceFormatting ==
  [][ (n' = n + 1 /\ IsValidV(ev') /\ output' # output) => EndsLine(output) ]_vars

\* C5: after a self-closing ve and before the next valid self-closing v
\* the content flag is false.
C5_ContentFlag == (pc = "running" /\ ~open) => ~in_content

\* C6: a text event inside an s, f or x element writes nothing, and when
\* such an element ends inside an open verse record the content flag is
\* true, so that the following text is emitted.
C6_Suppression ==
  [][ /\ (ReadsKind("Text") /\ InRegion(opened)) => output' = output
      /\ (ReadsKind("End") /\ ev'.name \in {"s", "f", "x"} /\ open)
           => in_content' ]_vars

\* C7: a text event whose payload is exactly one newline, read in state
\* InVerse with the content flag true, writes exactly "^", whatever
\* trim_text is.
C7_NewlineMarker ==
  [][ (Reads(TextEv(TxtNl)) /\ state = "InVerse" /\ in_content
         /\ pc' = "running")
        => output' = Append(output, "^") ]_vars

\* C8: while a verse record is open no text event writes a newline.
C8_OneLinePerVerse ==
  [][ (ReadsKind("Text") /\ open)
        => Count(output', NL) = Count(output, NL) ]_vars

\* C9: after a start-ve event directly followed by an end-ve event, read
\* while a verse record is open, the record is closed: the output ends
\* with its line terminator.
C9_PairedVerseEnd ==
  [][ (Reads(EndEv("ve")) /\ ev = StartEv("ve") /\ open)
        => (output' # <<>> /\ output'[Len(output')] = NL) ]_vars

\* C10: every failure (tokenizer error, failed decoding, failed write) makes
\* parse return Err in the same step, and once it has returned Err no event
\* is read and the output does not change.
C10_AbortOnError ==
  [][ /\ fault' # "none" => pc' = "err"
      /\ pc = "err" => (n' = n /\ output' = output) ]_vars

C10_Witness == pc = "err" /\ fault = "write" /\ output # <<>>

\* ---- helpers of the later properties ----
KnownTags == {"book", "s", "w", "v", "f", "x", "ve"}

IsTagEvent(e) == e.kind \in {"Start", "End", "Empty"}

HasBadAttr(e) ==
  \E i \in 1..Len(e.attrs) :
    e.attrs[i].syntax \/ ~IsUtf8(e.attrs[i].key) \/ ~IsUtf8(e.attrs[i].value)

PrefixGen11 == <<"G","E","N",TAB,"1",TAB,"1",TAB>>

\* the payload as the handler sees it after unescaping and trimming
Seen(e) == IF trim_text THEN Trim(Unescape(e.text).val) ELSE Unescape(e.text).val

\* C11: every text payload and every attribute that cannot be decoded makes
\* parse return an error, in every state and for every content flag.
C11_DecodeAlwaysAborts ==
  [][ /\ (ReadsKind("Text") /\ ~Unescape(ev'.text).ok) => pc' = "err"
      /\ (n' = n + 1 /\ HasBadAttr(ev')) => pc' = "err" ]_vars

\* C12: a start, end or self-closing event whose tag name is outside the
\* table leaves state, content flag, last_state and output unchanged and
\* raises no error.
C12_UnknownTagNoOp ==
  [][ (n' = n + 1 /\ IsTagEvent(ev') /\ ev'.name \notin KnownTags)
        => /\ UNCHANGED <<state, in_content, last_state, output>>
           /\ pc' = "running" /\ fault' = fault ]_vars

C12_Witness ==
  /\ ev = StartEv("p") /\ state = "InWord" /\ in_content
  /\ output = PrefixGen11 /\ pc = "running"

\* C13: a text event that directly follows a valid self-closing v is
\* written to the output, whatever the state was before the marker.
C13_TextAfterVerseStart ==
  [][ (Reads(TextEv(TxtIn)) /\ IsValidV(ev) /\ pc' = "running")
        => output' # output ]_vars

\* C14: a self-closing v without a three-component bcv writes nothing and
\* keeps state, content flag and last_state; when its attributes are well
\* formed it raises no error either.
C14_MalformedVNoOp ==
  [][ (n' = n + 1 /\ ev'.kind = "Empty" /\ ev'.name = "v"
         /\ 3 \notin BcvParts(ev'))
        => /\ UNCHANGED <<output, state, in_content, last_state>>
           /\ ~HasBadAttr(ev') => (pc' = "running" /\ fault' = fault) ]_vars

C14_Witness ==
  /\ IsMalformedV(ev) /\ in_content /\ state = "InWord"
  /\ output = PrefixGen11 /\ pc = "running"

C16_TransitionTable ==
  [][ /\ ReadsKind("Start") =>
           /\ output' = output
           /\ in_content' = (in_content /\ ev'.name # "s")
           /\ (ev'.name = "book" => state' = "Book")
           /\ (ev'.name = "s" => state' = "InSection")
           /\ (ev'.name = "w" =>
                 state' = (IF in_content THEN "InWord" ELSE state))
           /\ (ev'.name = "v" =>
                 state' = (IF in_content THEN "InVerse" ELSE state))
           /\ (ev'.name = "f" => state' = "InFootnote")
           /\ (ev'.name = "x" => state' = "InCrossReference")
           /\ (ev'.name = "ve" => state' = "VerseEnd")
      /\ ReadsKind("End") =>
           /\ output' = output
           /\ in_content' = in_content
           /\ (ev'.name \in {"s", "f", "x", "ve"} => state' = "Initial")
           /\ (ev'.name \in {"w", "v"} => state' = "InVerse")
           /\ (ev'.name = "book" => state' = state) ]_vars

C16_Witness ==
  /\ ev = EndEv("book") /\ state = "Initial" /\ output = <<NL>>
  /\ pc = "running"

\* C17: a text event read with the content flag true in state InWord writes
\* the text when last_state is Initial, nothing when last_state is InWord,
\* and one space followed by the text for every other last_state.
C17_InWordEmission ==
  [][ (ReadsKind("Text") /\ in_content /\ state = "InWord" /\ pc' = "running")
        => output' = output \o
             (IF last_state = "Initial" THEN Seen(ev')
              ELSE IF last_state = "InWord" THEN <<>>
              ELSE <<SP>> \o Seen(ev')) ]_vars

C17_Witness ==
  /\ ev = TextEv(TxtIn) /\ state = "InWord" /\ pc = "running"
  /\ script[1] = StartEv("book")
  /\ output = PrefixGen11 \o <<SP>> \o TxtIn

\* C18: a text event writes only when the content flag is true and the
\* state is InVerse or InWord.
C18_TextOnlyInVerseOrWord ==
  [][ (ReadsKind("Text") /\ output' # output)
        => (in_content /\ state \in {"InVerse", "InWord"}) ]_vars

C18_Witness ==
  /\ ev = TextEv(TxtIn) /\ in_content /\ state = "Initial"
  /\ output = PrefixGen11 /\ pc = "running"

\* C19: after a text event processed without error last_state is the state
\* current during that event, and no tag event changes last_state.
C19_LastState ==
  [][ /\ (ReadsKind("Text") /\ pc' = "running") => last_state' = state
      /\ (n' = n + 1 /\ IsTagEvent(ev')) => last_state' = last_state ]_vars

C19_Witness ==
  /\ ev = TextEv(TxtIn) /\ ~in_content /\ last_state = "InFootnote"
  /\ output = <<>> /\ pc = "running"

\* C20: from a start tag of s until the next valid self-closing v no text
\* event writes anything, also after the end tag of s, while a self-closing
\* ve in that span still writes the line terminator.
C20_SectionDropsRest ==
  [][ /\ (after_s /\ ReadsKind("Text")) => output' = output
      /\ (after_s /\ Reads(VeEmpty) /\ pc' = "running")
           => output' = Append(output, NL) ]_vars

C20_Witness ==
  /\ after_s /\ open /\ ev = TextEv(TxtIn) /\ opened = <<"w">>
  /\ output = PrefixGen11 /\ pc = "running"
====
